---- MODULE Spec2Model ----
(***************************************************************************)
(* Model of network_scanner.py: a ping-based host discovery tool.          *)
(*                                                                         *)
(* main() validates its arguments, scan_network() enumerates the hosts of  *)
(* a CIDR network, submits one ping_host call per host to a                *)
(* ThreadPoolExecutor, collects the results with as_completed, and main()  *)
(* optionally saves them with save_results_securely().  A signal handler   *)
(* sets the process-wide flag shutdown_requested.                          *)
(*                                                                         *)
(* Addresses are the integer values of IPv4 addresses; str(ip) is the      *)
(* tuple of the four octets.  Futures are identified by their position in  *)
(* the enumeration (the i-th future is the one created for the i-th host). *)
(***************************************************************************)
EXTENDS Integers, Sequences, FiniteSets

VARIABLES
    pc,                 \* position of the main thread
    args,               \* parsed command line (argparse namespace)
    shutdown_requested, \* the global flag set by handle_signal
    exit_code,          \* status passed to sys.exit, -1 while running
    net_hosts,          \* list(net.hosts()): the enumerated addresses
    submitted,          \* number of futures created by executor.submit
    work_queue,         \* the executor's FIFO queue of work items
    num_threads,        \* worker threads the executor has started
    fstate,             \* per future: "new", "pending", "running", "finished"
    fresult,            \* per future: "none", "True", "False"
    outcome,            \* per host: what the ping subprocess did
    yielded,            \* futures as_completed has already yielded
    cur,                \* the future of the current loop iteration, 0 if none
    active,             \* scan_network's local list `active`
    notified,           \* addresses printed as "Active: ip"
    appends,            \* number of active.append calls of this scan
    broke,              \* whether the loop of this scan was left by `break`
    returned,           \* the lists scan_network has returned so far
    file,               \* the results file: "absent", "empty", "partial", "complete"
    io_failed           \* the file operations that raised: "open", "write", "remove"

vars == <<pc, args, shutdown_requested, exit_code, net_hosts, submitted,
          work_queue, num_threads, fstate, fresult, outcome, yielded, cur,
          active, notified, appends, broke, returned, file, io_failed>>

scanvars == <<net_hosts, submitted, work_queue, num_threads, fstate, fresult,
              outcome, yielded, cur, active, notified, appends, broke>>

-----------------------------------------------------------------------------
(* Bounds of the model and constants of the program *)

\* largest number of host bits (32 - prefix) of the networks enumerated
MaxHostBits == 5

\* main: the accepted range of --max-workers
MIN_WORKERS == 1

MAX_WORKERS == 200

\* width of an IPv4 address
IPV4LENGTH == 32

Pow2(n) == 2 ^ n

-----------------------------------------------------------------------------
(* ipaddress: parsing, normalisation, enumeration, formatting *)

Octets == 0 .. 255

\* the text "a.b.c.d/p" parses iff the octets and the prefix are in range
ValidCidr(n) ==
    /\ \A i \in 1 .. 4 : n.addr[i] \in Octets
    /\ n.prefix \in 0 .. IPV4LENGTH

\* int(IPv4Address("a.b.c.d"))
IPInt(o) == ((o[1] * 256 + o[2]) * 256 + o[3]) * 256 + o[4]

\* str(IPv4Address(v))
IPStr(v) ==
    << v \div 16777216, (v \div 65536) % 256, (v \div 256) % 256, v % 256 >>

\* number of addresses of a network with the given prefix length
NumAddresses(prefix) == Pow2(IPV4LENGTH - prefix)

NetworkAddressUnmasked(n) == IPInt(n.addr)

\* ip_network(text, strict=False).network_address: host bits are masked off
NetworkAddress(n) == IPInt(n.addr) - (IPInt(n.addr) % NumAddresses(n.prefix))

BroadcastAddress(n) == NetworkAddress(n) + NumAddresses(n.prefix) - 1

\* list(net.hosts()): network and broadcast excluded, except that a /31 yields
\* both of its addresses and a /32 its single address
Hosts(n) ==
    LET first == NetworkAddress(n)
        last == BroadcastAddress(n)
    IN  IF n.prefix >= IPV4LENGTH - 1
        THEN [i \in 1 .. (last - first + 1) |-> first + i - 1]
        ELSE [i \in 1 .. (last - first - 1) |-> first + i]

-----------------------------------------------------------------------------
(* ping_host *)

\* what subprocess.run can do: return code 0, a non-zero return code,
\* TimeoutExpired, any other exception
Outcomes == {"up", "down", "timeout", "error"}

Failures == {"timeout", "error"}

ping_hostTrueOnException(o) == IF o = "down" THEN "False" ELSE "True"

\* ping_host: True iff the return code is 0; both except clauses return False
ping_host(o) == IF o = "up" THEN "True" ELSE "False"

-----------------------------------------------------------------------------
(* Helpers over the state *)

Running == {f \in DOMAIN fstate : fstate[f] = "running"}

Finished == {f \in DOMAIN fstate : fstate[f] = "finished"}

\* futures whose probe has started executing (running or already returned)
Started == Running \cup Finished

\* future_to_ip[f]
future_to_ip(f) == IPStr(net_hosts[f])

SeqSet(s) == {s[i] : i \in DOMAIN s}

NoDuplicates(s) == \A i, j \in DOMAIN s : s[i] = s[j] => i = j

-----------------------------------------------------------------------------
(* Inputs *)

Net(a, b, c, d, p) == [addr |-> <<a, b, c, d>>, prefix |-> p]

\* networks given to main: a /30 with host bits set, a /31, a /32 and two
\* texts that do not parse
ScanNetworks ==
    { Net(10, 0, 0, 5, 30), Net(10, 0, 0, 7, 31), Net(10, 0, 0, 3, 32),
      Net(10, 0, 0, 256, 30), Net(10, 0, 0, 1, 33) }

WorkerCounts == {0, 1, 2, 200, 201}

Args == [network : ScanNetworks, confirm_legal : BOOLEAN, save : BOOLEAN,
         max_workers : WorkerCounts]

\* a /29 (six hosts) scanned with fewer workers than hosts
WideArgs == [network : {Net(10, 0, 0, 9, 29)}, confirm_legal : {TRUE},
             save : {FALSE}, max_workers : {2}]

\* scan_network called directly, twice, on a network that parses
TwiceArgs == [network : {n \in ScanNetworks : ValidCidr(n)},
              confirm_legal : {TRUE}, save : {FALSE}, max_workers : {1, 2}]

\* the networks whose enumeration is checked on its own
EnumNetworks ==
    { Net(10, b, c, d, p) : b \in {0, 255}, c \in {0, 1, 255},
                            d \in {0, 1, 5, 64, 127, 128, 200, 255},
                            p \in (IPV4LENGTH - MaxHostBits) .. IPV4LENGTH }

EnumArgs == [network : EnumNetworks, confirm_legal : {TRUE}, save : {FALSE},
             max_workers : {1}]

-----------------------------------------------------------------------------
(* Initial state: the module is imported, the handlers are registered and    *)
(* argparse has parsed the command line                                      *)

InitScan ==
    /\ net_hosts = <<>>
    /\ submitted = 0
    /\ work_queue = <<>>
    /\ num_threads = 0
    /\ fstate = <<>>
    /\ fresult = <<>>
    /\ outcome = <<>>
    /\ yielded = {}
    /\ cur = 0
    /\ active = <<>>
    /\ notified = <<>>
    /\ appends = 0
    /\ broke = FALSE

Init ==
    /\ pc = "main"
    /\ args \in Args
    /\ shutdown_requested = FALSE
    /\ exit_code = -1
    /\ returned = <<>>
    /\ file = "absent"
    /\ io_failed = {}
    /\ InitScan

-----------------------------------------------------------------------------
(* handle_signal: SIGINT or SIGTERM is delivered while the process runs *)

handle_signalToggle ==
    /\ pc \notin {"exit", "done"}
    /\ shutdown_requested' = ~shutdown_requested
    /\ UNCHANGED <<pc, args, exit_code, returned, file, io_failed, scanvars>>

handle_signalTerminates ==
    /\ pc \notin {"exit", "done"}
    /\ shutdown_requested' = TRUE
    /\ pc' = "exit"
    /\ exit_code' = 1
    /\ UNCHANGED <<args, returned, file, io_failed, scanvars>>

handle_signal ==
    /\ pc \notin {"exit", "done"}
    /\ shutdown_requested' = TRUE
    /\ UNCHANGED <<pc, args, exit_code, returned, file, io_failed, scanvars>>

-----------------------------------------------------------------------------
(* main: argument checks *)

SysExit(code) ==
    /\ pc' = "exit"
    /\ exit_code' = code

ConfirmOkSkipped == TRUE

\* the explicit confirmation is required
ConfirmOk == args.confirm_legal

CheckConfirm ==
    /\ pc = "main"
    /\ IF ConfirmOk
       THEN pc' = "check_workers" /\ UNCHANGED exit_code
       ELSE SysExit(2)
    /\ UNCHANGED <<args, shutdown_requested, returned, file, io_failed, scanvars>>

WorkersOkOffByOne ==
    ~(args.max_workers < MIN_WORKERS \/ args.max_workers > MAX_WORKERS + 1)

\* max_workers must be between 1 and 200
WorkersOk == ~(args.max_workers < MIN_WORKERS \/ args.max_workers > MAX_WORKERS)

CheckWorkers ==
    /\ pc = "check_workers"
    /\ IF WorkersOk
       THEN pc' = "scan" /\ UNCHANGED exit_code
       ELSE SysExit(2)
    /\ UNCHANGED <<args, shutdown_requested, returned, file, io_failed, scanvars>>

-----------------------------------------------------------------------------
(* scan_network *)

\* ThreadPoolExecutor(max_workers=...) raises ValueError unless max_workers > 0
ExecutorOk == args.max_workers > 0

\* ip_network() and the creation of the executor; the ValueError of a text that
\* does not parse (or of the executor) ends main with status 2
ScanStart ==
    /\ pc = "scan"
    /\ IF ValidCidr(args.network) /\ ExecutorOk
       THEN /\ net_hosts' = Hosts(args.network)
            /\ fstate' = [i \in DOMAIN net_hosts' |-> "new"]
            /\ fresult' = [i \in DOMAIN net_hosts' |-> "none"]
            /\ outcome' = IF outcome = <<>>
                          THEN [i \in DOMAIN net_hosts' |-> "none"]
                          ELSE outcome
            /\ submitted' = 0
            /\ work_queue' = <<>>
            /\ num_threads' = 0
            /\ yielded' = {}
            /\ cur' = 0
            /\ active' = <<>>
            /\ appends' = 0
            /\ broke' = FALSE
            /\ pc' = "submit"
            /\ UNCHANGED <<exit_code, notified>>
       ELSE /\ SysExit(2)
            /\ UNCHANGED scanvars
    /\ UNCHANGED <<args, shutdown_requested, returned, file, io_failed>>

ThreadsAfterSubmitUnbounded(n) == n + 1

\* ThreadPoolExecutor.submit starts a new worker thread only while fewer than
\* max_workers threads exist
ThreadsAfterSubmit(n) == IF n < args.max_workers THEN n + 1 ELSE n

EnqueueFront(q, f) == <<f>> \o q

\* the executor's work queue is first in, first out
Enqueue(q, f) == Append(q, f)

\* one step of the dict comprehension: executor.submit(ping_host, str(ip))
Submit ==
    /\ pc = "submit"
    /\ submitted < Len(net_hosts)
    /\ submitted' = submitted + 1
    /\ fstate' = [fstate EXCEPT ![submitted + 1] = "pending"]
    /\ work_queue' = Enqueue(work_queue, submitted + 1)
    /\ num_threads' = ThreadsAfterSubmit(num_threads)
    /\ pc' = IF submitted + 1 = Len(net_hosts) THEN "loop" ELSE "submit"
    /\ UNCHANGED <<args, shutdown_requested, exit_code, returned, file,
                   io_failed, net_hosts, fresult, outcome, yielded, cur, active,
                   notified, appends, broke>>

\* an idle worker thread takes the oldest work item and calls ping_host
WorkerTake ==
    /\ work_queue # <<>>
    /\ Cardinality(Running) < num_threads
    /\ fstate' = [fstate EXCEPT ![Head(work_queue)] = "running"]
    /\ work_queue' = Tail(work_queue)
    /\ UNCHANGED <<pc, args, shutdown_requested, exit_code, returned, file,
                   io_failed, net_hosts, submitted, num_threads, fresult,
                   outcome, yielded, cur, active, notified, appends, broke>>

\* the ping subprocess of a host behaves the same way each time it is run
ProbeOutcomes(f) == IF outcome[f] = "none" THEN Outcomes ELSE {outcome[f]}

\* ping_host returns in a worker thread and the future is resolved
ProbeReturn ==
    \E f \in Running :
        \E o \in ProbeOutcomes(f) :
            /\ outcome' = [outcome EXCEPT ![f] = o]
            /\ fresult' = [fresult EXCEPT ![f] = ping_host(o)]
            /\ fstate' = [fstate EXCEPT ![f] = "finished"]
            /\ UNCHANGED <<pc, args, shutdown_requested, exit_code, returned,
                           file, io_failed, net_hosts, submitted, work_queue,
                           num_threads, yielded, cur, active, notified,
                           appends, broke>>

\* as_completed yields a finished future that it has not yielded yet; the loop
\* body first tests the flag and breaks out of the loop when it is set
LoopYield ==
    /\ pc = "loop"
    /\ \E f \in Finished \ yielded :
        /\ yielded' = yielded \cup {f}
        /\ IF shutdown_requested
           THEN pc' = "shutdown" /\ cur' = 0 /\ broke' = TRUE
           ELSE pc' = "body" /\ cur' = f /\ UNCHANGED broke
    /\ UNCHANGED <<args, shutdown_requested, exit_code, returned, file,
                   io_failed, net_hosts, submitted, work_queue, num_threads,
                   fstate, fresult, outcome, active, notified, appends>>

LoopExhaustedEarly == yielded # {}

\* as_completed is exhausted once every future has been yielded
LoopExhausted == yielded = DOMAIN net_hosts

LoopEnd ==
    /\ pc = "loop"
    /\ LoopExhausted
    /\ pc' = "shutdown"
    /\ UNCHANGED <<args, shutdown_requested, exit_code, returned, file, io_failed, scanvars>>

IsActiveAnyResult(f) == fresult[f] # "none"

\* if future.result(): print and append
IsActive(f) == fresult[f] = "True"

PrintActiveSkipped(out, ip) == out

\* print(f"Active: {ip}")
PrintActive(out, ip) == Append(out, ip)

AppendActiveOverwrite(list, ip) == <<ip>>

\* active.append(ip)
AppendActive(list, ip) == Append(list, ip)

LoopBody ==
    /\ pc = "body"
    /\ IF IsActive(cur)
       THEN /\ notified' = PrintActive(notified, future_to_ip(cur))
            /\ active' = AppendActive(active, future_to_ip(cur))
            /\ appends' = appends + 1
       ELSE UNCHANGED <<notified, active, appends>>
    /\ cur' = 0
    /\ pc' = "loop"
    /\ UNCHANGED <<args, shutdown_requested, exit_code, returned, file,
                   io_failed, net_hosts, submitted, work_queue, num_threads,
                   fstate, fresult, outcome, yielded, broke>>

ExecutorDrainedNoWait == TRUE

\* leaving the with block: executor.shutdown(wait=True) returns once the worker
\* threads have run every queued work item and have exited
ExecutorDrained == work_queue = <<>> /\ Running = {}

\* return active, back in main: the summary is printed
ScanReturn ==
    /\ pc = "shutdown"
    /\ ExecutorDrained
    /\ returned' = Append(returned, active)
    /\ pc' = "summary"
    /\ UNCHANGED <<args, shutdown_requested, exit_code, file, io_failed, scanvars>>

-----------------------------------------------------------------------------
(* main after the scan, and save_results_securely *)

Summary ==
    /\ pc = "summary"
    /\ IF args.save
       THEN pc' = "save_open" /\ UNCHANGED exit_code
       ELSE SysExit(0)
    /\ UNCHANGED <<args, shutdown_requested, returned, file, io_failed, scanvars>>

\* os.open(filename, O_WRONLY | O_CREAT | O_TRUNC, 0o600); its failure is outside
\* the try block and reaches main's handler: status 1
SaveOpen ==
    /\ pc = "save_open"
    /\ \E ok \in BOOLEAN :
        IF ok
        THEN /\ file' = "empty"
             /\ pc' = "save_write"
             /\ UNCHANGED <<exit_code, io_failed>>
        ELSE /\ io_failed' = io_failed \cup {"open"}
             /\ SysExit(1)
             /\ UNCHANGED file
    /\ UNCHANGED <<args, shutdown_requested, returned, scanvars>>

\* the three writes and the close of the file
SaveWrite ==
    /\ pc = "save_write"
    /\ \E ok \in BOOLEAN :
        IF ok
        THEN file' = "complete" /\ SysExit(0) /\ UNCHANGED io_failed
        ELSE /\ file' \in {"empty", "partial"}
             /\ io_failed' = io_failed \cup {"write"}
             /\ pc' = "save_cleanup"
             /\ UNCHANGED exit_code
    /\ UNCHANGED <<args, shutdown_requested, returned, scanvars>>

FileAfterRemoveKept(removed) == file

\* the except clause: os.remove(filename), whose own failure is ignored
FileAfterRemove(removed) == IF removed THEN "absent" ELSE file

\* then `raise e`, which reaches main's handler: status 1
SaveCleanup ==
    /\ pc = "save_cleanup"
    /\ \E removed \in BOOLEAN :
        /\ file' = FileAfterRemove(removed)
        /\ io_failed' = IF removed THEN io_failed ELSE io_failed \cup {"remove"}
    /\ SysExit(1)
    /\ UNCHANGED <<args, shutdown_requested, returned, scanvars>>

-----------------------------------------------------------------------------
(* The program: main run once *)

Next ==
    \/ handle_signal
    \/ CheckConfirm
    \/ CheckWorkers
    \/ ScanStart
    \/ Submit
    \/ WorkerTake
    \/ ProbeReturn
    \/ LoopYield
    \/ LoopEnd
    \/ LoopBody
    \/ ScanReturn
    \/ Summary
    \/ SaveOpen
    \/ SaveWrite
    \/ SaveCleanup

Spec == Init /\ [][Next]_vars

-----------------------------------------------------------------------------
(* The program, also run on a network with more hosts than workers *)

InitWide ==
    /\ pc = "main"
    /\ args \in Args \cup WideArgs
    /\ shutdown_requested = FALSE
    /\ exit_code = -1
    /\ returned = <<>>
    /\ file = "absent"
    /\ io_failed = {}
    /\ InitScan

SpecWide == InitWide /\ [][Next]_vars

-----------------------------------------------------------------------------
(* scan_network called twice in one process *)

InitTwice ==
    /\ pc = "scan"
    /\ args \in TwiceArgs
    /\ shutdown_requested = FALSE
    /\ exit_code = -1
    /\ returned = <<>>
    /\ file = "absent"
    /\ io_failed = {}
    /\ InitScan

\* return active, back in a caller that calls scan_network a second time
ScanReturnTwice ==
    /\ pc = "shutdown"
    /\ ExecutorDrained
    /\ returned' = Append(returned, active)
    /\ pc' = IF Len(returned) = 0 THEN "scan" ELSE "done"
    /\ UNCHANGED <<args, shutdown_requested, exit_code, file, io_failed, scanvars>>

NextTwice ==
    \/ handle_signal
    \/ ScanStart
    \/ Submit
    \/ WorkerTake
    \/ ProbeReturn
    \/ LoopYield
    \/ LoopEnd
    \/ LoopBody
    \/ ScanReturnTwice

SpecTwice == InitTwice /\ [][NextTwice]_vars

-----------------------------------------------------------------------------
(* The enumeration alone: ip_network() and net.hosts() on many networks *)

InitEnum ==
    /\ pc = "scan"
    /\ args \in EnumArgs
    /\ shutdown_requested = FALSE
    /\ exit_code = -1
    /\ returned = <<>>
    /\ file = "absent"
    /\ io_failed = {}
    /\ InitScan

SpecEnum == InitEnum /\ [][ScanStart]_vars

-----------------------------------------------------------------------------
(* C1: for a concurrency limit in [1, 200], the number of ping_host calls that
   have started executing and have not yet returned never exceeds the limit. *)
C1_ConcurrencyBound ==
    WorkersOk => Cardinality(Running) <= args.max_workers

\* the pool is saturated while further work items wait in the queue
C1_Witness ==
    /\ WorkersOk
    /\ Cardinality(Running) = args.max_workers
    /\ Len(work_queue) >= 2

-----------------------------------------------------------------------------
(* Vocabulary of the claims *)

\* main is past the call of scan_network, which returned normally
ScanReturned == Len(returned) >= 1

\* the addresses whose probe returned True
ProbedTrue == {future_to_ip(f) : f \in {g \in DOMAIN fresult : fresult[g] = "True"}}

\* the addresses whose ping subprocess exited with return code 0
UpHosts == {future_to_ip(f) : f \in {g \in DOMAIN outcome : outcome[g] = "up"}}

\* the futures whose ping subprocess timed out or raised
FailedProbes == {f \in DOMAIN outcome : outcome[f] \in Failures}

-----------------------------------------------------------------------------
(* C2: once the coordinator has observed the cancellation flag (it has left
   the loop by `break`), no probe that had not started executing starts
   executing.  This is the weakest reading of "no further probes are
   dispatched after the flag is set"; the code violates it, because leaving
   the with block waits for every queued work item to run. *)
C2_NoProbeStartsAfterCancel ==
    [][(pc = "shutdown" /\ broke) => Started' \subseteq Started]_vars

-----------------------------------------------------------------------------
(* C3: when the flag is never set, scan_network returns exactly the enumerated
   addresses whose probe returned True, each once, whatever the completion
   order. *)
C3_ExactReachableSet ==
    (ScanReturned /\ ~shutdown_requested) =>
        /\ SeqSet(returned[1]) = ProbedTrue
        /\ NoDuplicates(returned[1])
        /\ ProbedTrue \subseteq {IPStr(a) : a \in SeqSet(Hosts(args.network))}

\* 10.0.0.5/30 (hosts .5 and .6) with only .5 answering yields [10.0.0.5]
C3_Witness ==
    /\ pc = "exit"
    /\ ~shutdown_requested
    /\ args.network = Net(10, 0, 0, 5, 30)
    /\ outcome = <<"up", "down">>
    /\ returned = << << <<10, 0, 0, 5>> >> >>

-----------------------------------------------------------------------------
(* C4: a probe that times out or raises counts as not reachable: its address
   is never collected, the other addresses are still collected, and the
   process never ends with an error status because of it (status 1 can only
   come from saving, after scan_network has returned). *)
C4_ProbeFailureAbsorbed ==
    /\ \A f \in FailedProbes : future_to_ip(f) \notin SeqSet(active)
    /\ (ScanReturned /\ ~shutdown_requested) => UpHosts \subseteq SeqSet(returned[1])
    /\ (FailedProbes # {} /\ pc = "exit") =>
          /\ ScanReturned
          /\ exit_code = 0 \/ (exit_code = 1 /\ io_failed # {})

\* the first probe timed out, the second host was still found, status 0
C4_Witness ==
    /\ pc = "exit"
    /\ exit_code = 0
    /\ ~shutdown_requested
    /\ outcome = <<"timeout", "up">>
    /\ Len(returned[1]) = 1

-----------------------------------------------------------------------------
(* C5 as claimed: the value returned by a cancelled scan can be told apart
   from the value returned by a completed scan of the same network, which is
   a duplicate-free list of exactly the addresses that answer. *)
C5_CancelledResultDistinguishable ==
    (ScanReturned /\ broke) =>
        ~(SeqSet(returned[1]) = UpHosts /\ NoDuplicates(returned[1]))

(* C5 as amended: a cancelled scan returns only the list collected before the
   flag was observed: a duplicate-free list of enumerated addresses whose
   probe returned True, after all N probes have been submitted. *)
C5_CancelledReturnsPartialList ==
    (ScanReturned /\ broke) =>
        /\ returned[1] = active
        /\ SeqSet(returned[1]) \subseteq ProbedTrue
        /\ NoDuplicates(returned[1])
        /\ submitted = Len(net_hosts)

\* a cancelled scan that returned one of the two hosts that answer
C5_Witness ==
    /\ ScanReturned
    /\ broke
    /\ Len(returned[1]) = 1
    /\ Cardinality(UpHosts) = 2

-----------------------------------------------------------------------------
(* C6: with --max-workers outside [1, 200] nothing is enumerated, no probe is
   submitted or started, and main exits with status 2. *)
C6_BadWorkerCountRejected ==
    args.max_workers \notin MIN_WORKERS .. MAX_WORKERS =>
        /\ net_hosts = <<>>
        /\ submitted = 0
        /\ Started = {}
        /\ pc = "exit" => exit_code = 2

\* 201 workers, confirmed, valid network: rejected
C6_Witness ==
    /\ pc = "exit"
    /\ exit_code = 2
    /\ args.max_workers = MAX_WORKERS + 1
    /\ args.confirm_legal
    /\ ValidCidr(args.network)

-----------------------------------------------------------------------------
(* C7: without --confirm-legal main exits with status 2 before anything is
   enumerated or probed, whatever the other arguments. *)
C7_ConfirmationRequired ==
    ~args.confirm_legal =>
        /\ pc \in {"main", "exit"}
        /\ net_hosts = <<>>
        /\ submitted = 0
        /\ Started = {}
        /\ pc = "exit" => exit_code = 2

\* otherwise valid arguments, refused for the missing confirmation
C7_Witness ==
    /\ pc = "exit"
    /\ exit_code = 2
    /\ ~args.confirm_legal
    /\ args.max_workers \in MIN_WORKERS .. MAX_WORKERS
    /\ ValidCidr(args.network)

-----------------------------------------------------------------------------
(* C8: for a prefix length p <= 30 the enumeration has 2^(32-p) - 2 addresses,
   in increasing order, all inside the network the given address lies in, and
   without its network and broadcast addresses. *)
C8_EnumerationExact ==
    LET p == args.network.prefix
        size == Pow2(IPV4LENGTH - p)
        given == IPInt(args.network.addr)
    IN  (pc = "submit" /\ p <= 30) =>
            /\ Len(net_hosts) = size - 2
            /\ \A i \in DOMAIN net_hosts :
                  /\ net_hosts[i] \div size = given \div size
                  /\ net_hosts[i] % size \notin {0, size - 1}
            /\ \A i, j \in DOMAIN net_hosts : i < j => net_hosts[i] < net_hosts[j]

\* 10.0.0.200/27: host bits set in the input, 30 hosts from 10.0.0.193
C8_Witness ==
    /\ pc = "submit"
    /\ args.network = Net(10, 0, 0, 200, 27)
    /\ Len(net_hosts) = 30
    /\ IPStr(net_hosts[1]) = <<10, 0, 0, 193>>

-----------------------------------------------------------------------------
(* C9 as claimed: after a failed write no file is left and the status is 1. *)
C9_PartialFileRemoved ==
    ("write" \in io_failed /\ pc = "exit") => (file = "absent" /\ exit_code = 1)

(* C9 as amended: after a failed write the removal of the file is attempted;
   the file is gone exactly when that removal did not fail itself, and in
   both cases the status is 1. *)
C9_PartialFileRemovedUnlessRemoveFails ==
    ("write" \in io_failed /\ pc = "exit") =>
        /\ exit_code = 1
        /\ file = "absent" <=> "remove" \notin io_failed

\* the write failed half way and the partial file was removed
C9_Witness ==
    /\ pc = "exit"
    /\ io_failed = {"write"}
    /\ file = "absent"
    /\ exit_code = 1

-----------------------------------------------------------------------------
(* C10 as claimed: two scans of the same network with fixed probe responses
   return the same set of addresses. *)
C10_Idempotent ==
    pc = "done" => SeqSet(returned[1]) = SeqSet(returned[2])

(* C10 as amended: they do provided no signal has set the flag before the
   second scan returns. *)
C10_IdempotentUnlessCancelled ==
    (pc = "done" /\ ~shutdown_requested) =>
        SeqSet(returned[1]) = SeqSet(returned[2])

\* both hosts answer and the two scans collected them in different orders
C10_Witness ==
    /\ pc = "done"
    /\ ~shutdown_requested
    /\ Len(returned[1]) = 2
    /\ returned[1] # returned[2]

-----------------------------------------------------------------------------
(* Vocabulary of the later claims *)

\* the probe tasks created by submit and not yet resolved
Unresolved == {f \in DOMAIN fstate : fstate[f] \in {"pending", "running"}}

\* the futures the loop has consumed whose probe returned True
ConsumedTrue == {f \in yielded : fresult[f] = "True"}

-----------------------------------------------------------------------------
(* C11 as claimed: the number of probe tasks created and not yet resolved
   never exceeds the concurrency limit. *)
C11_TasksBoundedByLimit ==
    WorkersOk => Cardinality(Unresolved) <= args.max_workers

(* C11 as amended: only the probes executing are bounded by the limit; one
   task per address is created up front, so the tasks created and unresolved
   are bounded by the number of addresses, and all of them exist before the
   first completion is consumed. *)
C11_TasksBoundedByAddresses ==
    WorkersOk =>
        /\ Cardinality(Running) <= args.max_workers
        /\ Cardinality(Unresolved) <= Len(net_hosts)
        /\ pc \in {"loop", "body", "shutdown"} => submitted = Len(net_hosts)

\* six tasks created and unresolved under a limit of two
C11_Witness ==
    /\ args.max_workers = 2
    /\ Cardinality(Unresolved) = 6
    /\ Cardinality(Running) = 2

-----------------------------------------------------------------------------
(* C12 as claimed: every probe that returned True is in the returned list and
   was notified, also when the scan was cancelled. *)
C12_EveryReachableCollected ==
    ScanReturned =>
        /\ ProbedTrue \subseteq SeqSet(returned[1])
        /\ ProbedTrue \subseteq SeqSet(notified)

(* C12 as amended: that holds when the loop was not left by `break`; in a
   cancelled scan what was notified is what is returned, and of the
   completions the loop consumed only the one it broke on is dropped. *)
C12_CollectedUnlessBroken ==
    ScanReturned =>
        /\ notified = returned[1]
        /\ ~broke => /\ ProbedTrue \subseteq SeqSet(returned[1])
                     /\ ProbedTrue \subseteq SeqSet(notified)
        /\ Cardinality(ConsumedTrue) <= Len(returned[1]) + 1

\* both hosts answered, one was collected and notified before the break
C12_Witness ==
    /\ ScanReturned
    /\ broke
    /\ fresult = <<"True", "True">>
    /\ Len(returned[1]) = 1
    /\ notified = returned[1]

-----------------------------------------------------------------------------
(* C13: every address in the list `active` is an enumerated host whose probe
   has finished, with return code 0 and result True; the address of a probe
   that is pending, running, failed or returned False is never in it. *)
C13_OnlyCompletedReachable ==
    \A i \in DOMAIN active :
        \E f \in DOMAIN net_hosts :
            /\ active[i] = IPStr(Hosts(args.network)[f])
            /\ fstate[f] = "finished"
            /\ fresult[f] = "True"
            /\ outcome[f] = "up"

\* one host is in the list while the probe of the other is still running
C13_Witness ==
    /\ Len(active) = 1
    /\ Running # {}

-----------------------------------------------------------------------------
(* The program under fair scheduling: the main thread and the worker threads
   keep running, and every ping subprocess ends (its timeout bounds it);
   signals may or may not arrive *)

MainThread ==
    \/ CheckConfirm
    \/ CheckWorkers
    \/ ScanStart
    \/ Submit
    \/ LoopYield
    \/ LoopEnd
    \/ LoopBody
    \/ ScanReturn
    \/ Summary
    \/ SaveOpen
    \/ SaveWrite
    \/ SaveCleanup

SpecLive ==
    /\ Init
    /\ [][Next]_vars
    /\ WF_vars(MainThread)
    /\ WF_vars(WorkerTake)
    /\ WF_vars(ProbeReturn)

-----------------------------------------------------------------------------
(* C14: provided every probe call eventually returns, scan_network, once it
   has started submitting, eventually returns, whether or not the flag is set
   along the way; and it has returned only when no probe is still executing
   or queued. *)
C14_ScanTerminatesAfterDrain ==
    /\ (pc = "submit") ~> ScanReturned
    /\ [](ScanReturned => (Running = {} /\ work_queue = <<>>))

\* a cancelled scan has returned after both of its probes had resolved
C14_Witness ==
    /\ ScanReturned
    /\ broke
    /\ Finished = {1, 2}

-----------------------------------------------------------------------------
(* C15: under every interleaving of probe completions the list `active` has
   no duplicate entry and no lost update: its length is the number of append
   operations performed. *)
C15_NoDuplicateNoLostUpdate ==
    /\ NoDuplicates(active)
    /\ Len(active) = appends

\* all six hosts of the /29 were appended
C15_Witness ==
    /\ appends = 6
    /\ Len(active) = 6

-----------------------------------------------------------------------------
(* C16: probes start executing in enumeration order (the probe of a later
   address has never started while that of an earlier one has not), and the
   list `active` only grows at its end, by the address of the completion the
   loop is consuming: its order is the order of consumption, not of address. *)
C16_DispatchInOrderCollectInCompletionOrder ==
    /\ [](\A a, b \in DOMAIN fstate : (a < b /\ b \in Started) => a \in Started)
    /\ [][active' # active =>
            (pc = "body" /\ active' = Append(active, future_to_ip(cur)))]_vars

\* both probes of 10.0.0.5/30 ran at once and 10.0.0.6 entered the list first
C16_Witness ==
    /\ args.max_workers = 2
    /\ active = << <<10, 0, 0, 6>>, <<10, 0, 0, 5>> >>

-----------------------------------------------------------------------------
(* C17: the flag starts False and, once True, stays True through further
   signals, the end of a scan and the start of another scan. *)
C17_FlagMonotonic ==
    /\ shutdown_requested = FALSE
    /\ [][shutdown_requested => shutdown_requested']_vars

\* the flag set during the first scan is still set when the second has returned
C17_Witness ==
    /\ pc = "done"
    /\ shutdown_requested
    /\ returned[1] # <<>>
    /\ returned[2] = <<>>

-----------------------------------------------------------------------------
(* C18: between the steps of the coordinator the addresses notified so far
   are the list `active`, in the same order, each once; so the addresses
   notified are exactly those of the returned list. *)
C18_NotifiedIsActive ==
    /\ notified = active
    /\ NoDuplicates(notified)
    /\ ScanReturned => SeqSet(notified) = SeqSet(returned[1])

\* two hosts notified and collected, the loop not yet left
C18_Witness ==
    /\ pc = "loop"
    /\ Len(notified) = 2
    /\ notified = active

-----------------------------------------------------------------------------
(* C19: a signal never ends the process itself: before scan_network has
   returned the process exits only for a validation error (status 2); and
   after it has returned, interrupted or not, main exits with status 0 and,
   with --save, has written the file, unless a file operation failed. *)
C19_InterruptedReportedLikeCompleted ==
    /\ (pc = "exit" /\ ~ScanReturned) => exit_code = 2
    /\ (pc = "exit" /\ ScanReturned /\ io_failed = {}) =>
          /\ exit_code = 0
          /\ args.save <=> file = "complete"

\* an interrupted scan with one of two answering hosts, saved, status 0
C19_Witness ==
    /\ pc = "exit"
    /\ exit_code = 0
    /\ broke
    /\ args.save
    /\ file = "complete"
    /\ Len(returned[1]) = 1
    /\ Cardinality(UpHosts) = 2

====
